---- MODULE Spec2Model ----
(***************************************************************************)
(* A model of the smart-home analytics engine:                             *)
(*   scripts/ollama_client.py  OllamaClient (completion call, response     *)
(*                             clean-up and JSON decoding, insight split)  *)
(*   scripts/main.py           SmartHomeGraphitiEngine (environment check, *)
(*                             service initialisation, processing loop)    *)
(*                                                                         *)
(* Texts are sequences of one-character strings.  json.loads is modelled   *)
(* on the fragment of JSON made of objects, arrays, strings without escape *)
(* sequences, integers and the literals null, true and false; no text the  *)
(* model feeds it holds a backslash, a fraction, an exponent, NaN or       *)
(* Infinity, so that the fragment decides each as CPython's decoder does.  *)
(***************************************************************************)
EXTENDS Integers, Sequences, FiniteSets, TLC

(***************************************************************************)
(* Characters and Python string operations                                 *)
(***************************************************************************)

\* Characters str.strip() removes (those of str.isspace the model writes).
PyWhitespace == {" ", "\t", "\n", "\r", "\f"}

\* json.decoder.WHITESPACE: the characters the decoder skips between tokens.
JsonWhitespace == {" ", "\t", "\n", "\r"}

\* Characters json's strict string scanner refuses inside a string.
ControlChars == {"\t", "\n", "\r", "\f"}

Digits == {"0", "1", "2", "3", "4", "5", "6", "7", "8", "9"}

DigitValue(c) ==
  CASE c = "0" -> 0 [] c = "1" -> 1 [] c = "2" -> 2 [] c = "3" -> 3
    [] c = "4" -> 4 [] c = "5" -> 5 [] c = "6" -> 6 [] c = "7" -> 7
    [] c = "8" -> 8 [] OTHER -> 9

\* s[a:b] for 0 <= a, 0 <= b (Python's half-open slice, clamped to the text).
PySlice(s, a, b) ==
  LET lo == IF a > Len(s) THEN Len(s) ELSE a
      hi == IF b > Len(s) THEN Len(s) ELSE b
  IN  IF lo >= hi THEN <<>> ELSE SubSeq(s, lo + 1, hi)

\* s[a:-k] for 0 <= a, k > 0: a negative stop counts from the end.
PySliceFromEnd(s, a, k) ==
  PySlice(s, a, IF Len(s) - k < 0 THEN 0 ELSE Len(s) - k)

\* s.startswith(p)
StartsWith(s, p) == Len(s) >= Len(p) /\ SubSeq(s, 1, Len(p)) = p

RECURSIVE LStrip(_)
LStrip(s) ==
  IF s # <<>> /\ Head(s) \in PyWhitespace THEN LStrip(Tail(s)) ELSE s

RECURSIVE RStrip(_)
RStrip(s) ==
  IF s # <<>> /\ s[Len(s)] \in PyWhitespace
    THEN RStrip(SubSeq(s, 1, Len(s) - 1))
    ELSE s

\* s.strip()
Strip(s) == RStrip(LStrip(s))

(***************************************************************************)
(* json.loads                                                              *)
(***************************************************************************)

\* Decoded values: None, bool, int, str, list, dict (keys are strings; a
\* repeated key keeps its last value, and key order does not matter).
JNull == [t |-> "null"]
JBool(b) == [t |-> "bool", b |-> b]
JInt(n) == [t |-> "int", n |-> n]
JStr(s) == [t |-> "str", s |-> s]
JList(items) == [t |-> "list", items |-> items]
JDict(d) == [t |-> "dict", d |-> d]

\* A scan either fails (JSONDecodeError) or gives a value and the index of
\* the first character after it (1-based).
ScanFail == [ok |-> FALSE, val |-> JNull, end |-> 0]
ScanOk(v, e) == [ok |-> TRUE, val |-> v, end |-> e]

\* WHITESPACE.match(s, i).end()
RECURSIVE SkipWhitespace(_, _)
SkipWhitespace(s, i) ==
  IF i <= Len(s) /\ s[i] \in JsonWhitespace THEN SkipWhitespace(s, i + 1) ELSE i

\* scanstring, called just after the opening quote; start is that index.
RECURSIVE ScanString(_, _, _)
ScanString(s, start, i) ==
  IF i > Len(s) THEN ScanFail
  ELSE IF s[i] = "\"" THEN ScanOk(JStr(SubSeq(s, start, i - 1)), i + 1)
  ELSE IF s[i] \in ControlChars THEN ScanFail
  ELSE ScanString(s, start, i + 1)

\* The digits of [1-9]\d* or of a lone 0, from i on; acc is the value so far.
RECURSIVE ScanDigits(_, _, _)
ScanDigits(s, i, acc) ==
  IF i <= Len(s) /\ s[i] \in Digits
    THEN ScanDigits(s, i + 1, 10 * acc + DigitValue(s[i]))
    ELSE ScanOk(JInt(acc), i)

\* NUMBER_RE, integer part: -?(?:0|[1-9]\d*)
ScanNumber(s, i) ==
  LET neg == i <= Len(s) /\ s[i] = "-"
      j == IF neg THEN i + 1 ELSE i
  IN  IF j > Len(s) \/ s[j] \notin Digits THEN ScanFail
      ELSE LET r == IF s[j] = "0" THEN ScanOk(JInt(0), j + 1)
                                   ELSE ScanDigits(s, j, 0)
           IN  IF neg THEN ScanOk(JInt(0 - r.val.n), r.end) ELSE r

\* s[i:i+len(w)] == w  (i is 1-based)
LiteralAt(s, i, w) ==
  i + Len(w) - 1 <= Len(s) /\ SubSeq(s, i, i + Len(w) - 1) = w

RECURSIVE ScanOnce(_, _)
RECURSIVE ArrayItems(_, _, _)
RECURSIVE ObjectMembers(_, _, _)

\* JSONArray after the first value position i (whitespace already skipped).
ArrayItems(s, i, acc) ==
  LET r == ScanOnce(s, i)
  IN  IF ~r.ok THEN ScanFail
      ELSE LET j == SkipWhitespace(s, r.end)
           IN  IF j > Len(s) THEN ScanFail
               ELSE IF s[j] = "]" THEN ScanOk(JList(Append(acc, r.val)), j + 1)
               ELSE IF s[j] = ","
                 THEN ArrayItems(s, SkipWhitespace(s, j + 1), Append(acc, r.val))
               ELSE ScanFail

\* JSONObject from the opening quote of a key at i; acc maps keys to values.
ObjectMembers(s, i, acc) ==
  IF i > Len(s) \/ s[i] # "\"" THEN ScanFail
  ELSE LET k == ScanString(s, i + 1, i + 1)
       IN  IF ~k.ok THEN ScanFail
           ELSE LET c == SkipWhitespace(s, k.end)
                IN  IF c > Len(s) \/ s[c] # ":" THEN ScanFail
                    ELSE LET r == ScanOnce(s, SkipWhitespace(s, c + 1))
                         IN  IF ~r.ok THEN ScanFail
                             ELSE LET j == SkipWhitespace(s, r.end)
                                      d == [x \in DOMAIN acc \cup {k.val.s} |->
                                              IF x = k.val.s THEN r.val ELSE acc[x]]
                                  IN  IF j > Len(s) THEN ScanFail
                                      ELSE IF s[j] = "}" THEN ScanOk(JDict(d), j + 1)
                                      ELSE IF s[j] = ","
                                        THEN ObjectMembers(s, SkipWhitespace(s, j + 1), d)
                                      ELSE ScanFail

\* py_make_scanner's _scan_once: one value starting at i.
ScanOnce(s, i) ==
  IF i > Len(s) THEN ScanFail
  ELSE IF s[i] = "\"" THEN ScanString(s, i + 1, i + 1)
  ELSE IF s[i] = "{"
    THEN LET j == SkipWhitespace(s, i + 1)
         IN  IF j <= Len(s) /\ s[j] = "}" THEN ScanOk(JDict(<<>>), j + 1)
             ELSE ObjectMembers(s, j, <<>>)
  ELSE IF s[i] = "["
    THEN LET j == SkipWhitespace(s, i + 1)
         IN  IF j <= Len(s) /\ s[j] = "]" THEN ScanOk(JList(<<>>), j + 1)
             ELSE ArrayItems(s, j, <<>>)
  ELSE IF LiteralAt(s, i, <<"n", "u", "l", "l">>) THEN ScanOk(JNull, i + 4)
  ELSE IF LiteralAt(s, i, <<"t", "r", "u", "e">>) THEN ScanOk(JBool(TRUE), i + 4)
  ELSE IF LiteralAt(s, i, <<"f", "a", "l", "s", "e">>) THEN ScanOk(JBool(FALSE), i + 5)
  ELSE ScanNumber(s, i)

\* json.loads(s): JSONDecoder.decode; ok = FALSE stands for JSONDecodeError.
JsonLoads(s) ==
  LET r == ScanOnce(s, SkipWhitespace(s, 1))
  IN  IF ~r.ok THEN ScanFail
      ELSE IF SkipWhitespace(s, r.end) # Len(s) + 1 THEN ScanFail
      ELSE r

(***************************************************************************)
(* OllamaClient: texts the backend may deliver                             *)
(***************************************************************************)

\* The grave accent (U+0060), which a TLA+ string cannot hold: this token
\* stands for that one character.
Backtick == "BACKTICK"

\* Largest length of the exhaustively enumerated backend texts.
MaxTextLen == 4

\* Alphabet of the exhaustively enumerated backend texts.
TextAlphabet == {"[", "]", "1", "\"", " ", Backtick}

ArbitraryTexts == UNION {[1..n -> TextAlphabet] : n \in 0..MaxTextLen}

Quoted(s) == <<"\"">> \o s \o <<"\"">>
KeyEntities == <<"e", "n", "t", "i", "t", "i", "e", "s">>
KeyRelationships ==
  <<"r", "e", "l", "a", "t", "i", "o", "n", "s", "h", "i", "p", "s">>
KeyName == <<"n", "a", "m", "e">>

\* {'entities':[],'relationships':[]}
TextEmptyLists ==
  <<"{">> \o Quoted(KeyEntities) \o <<":", "[", "]", ",">>
          \o Quoted(KeyRelationships) \o <<":", "[", "]", "}">>
\* {'entities': [{'name': 'tv'}], 'relationships': []}
TextOneEntity ==
  <<"{">> \o Quoted(KeyEntities) \o <<":", " ", "[", "{">> \o Quoted(KeyName)
          \o <<":", " ">> \o Quoted(<<"t", "v">>) \o <<"}", "]", ",", " ">>
          \o Quoted(KeyRelationships) \o <<":", " ", "[", "]", "}">>
\* {'entities':[]}
TextMissingKey == <<"{">> \o Quoted(KeyEntities) \o <<":", "[", "]", "}">>
\* {'entities':7,'relationships':[]}
TextWrongType ==
  <<"{">> \o Quoted(KeyEntities) \o <<":", "7", ",">>
          \o Quoted(KeyRelationships) \o <<":", "[", "]", "}">>
TextNull == <<"n", "u", "l", "l">>
TextNumber == <<"4", "2">>
TextString == Quoted(<<"o", "k">>)
TextObject == <<"{", "}">>
\* not json
TextNotJson == <<"n", "o", "t", " ", "j", "s", "o", "n">>
\* {'entities':[   (output cut short)
TextTruncated == <<"{">> \o Quoted(KeyEntities) \o <<":", "[">>

SampleTexts ==
  {TextEmptyLists, TextOneEntity, TextMissingKey, TextWrongType, TextNull,
   TextNumber, TextString, TextObject, TextNotJson, TextTruncated}

\* The texts that are valid JSON.
JsonTexts == {t \in ArbitraryTexts \cup SampleTexts : JsonLoads(t).ok}

Fence == <<Backtick, Backtick, Backtick>>
FenceJson == Fence \o <<"j", "s", "o", "n">>
FenceOther == Fence \o <<"j", "s">>

\* A fenced code block: whitespace, opening fence (bare, tagged json, or
\* with another tag), whitespace, the JSON, whitespace, closing fence,
\* whitespace.
FenceKinds == {"bare", "json", "other"}
OpeningFence(kind) ==
  CASE kind = "bare" -> Fence [] kind = "json" -> FenceJson [] OTHER -> FenceOther
Wrappings ==
  [lead : {<<>>, <<"\n">>}, kind : FenceKinds,
   inner : {<<>>, <<"\n">>, <<" ">>}, trail : {<<>>, <<"\n">>}]
Wrap(j, w) ==
  w.lead \o OpeningFence(w.kind) \o w.inner \o j \o w.inner \o Fence \o w.trail

\* What one backend call comes to: the transport raises, or an HTTP response
\* arrives with a status and the text of its 'response' field (empty when
\* the field is absent).  json and fence record how the text was written: a
\* JSON text inside a fence of that kind, or as it stands ('none').
HttpOK == 200
HttpError == 500
TransportError ==
  [kind |-> "exception", status |-> 0, text |-> <<>>, json |-> <<>>, fence |-> "none"]
\* No call has ended yet.
NoOutcome ==
  [kind |-> "none", status |-> 0, text |-> <<>>, json |-> <<>>, fence |-> "none"]
Plain(st, t) ==
  [kind |-> "http", status |-> st, text |-> t, json |-> t, fence |-> "none"]
PlainOutcomes == {Plain(HttpOK, t) : t \in ArbitraryTexts \cup SampleTexts}
ErrorOutcomes == {Plain(HttpError, t) : t \in SampleTexts}
FencedOutcomes ==
  {[kind |-> "http", status |-> HttpOK, text |-> Wrap(j, w), json |-> j,
    fence |-> w.kind] : j \in JsonTexts, w \in Wrappings}
Outcomes ==
  {TransportError} \cup PlainOutcomes \cup ErrorOutcomes \cup FencedOutcomes

(***************************************************************************)
(* OllamaClient.generate_completion and extract_entities_and_relationships *)
(***************************************************************************)

\* generate_completion without the check of response.status: the body's
\* text whatever the status.
CompletionTextIgnoresStatus(o) ==
  IF o.kind = "exception" THEN <<>> ELSE o.text

\* generate_completion's return value: result.get('response', '') on status
\* 200, '' on any other status and on any exception.
CompletionText(o) ==
  IF o.kind = "exception" THEN <<>>
  ELSE IF o.status = HttpOK THEN o.text
  ELSE <<>>

\* logging.error calls of generate_completion.
CompletionErrors(o) == IF o.kind = "exception" \/ o.status # HttpOK THEN 1 ELSE 0

\* The clean-up with slices that keep the closing fence: [7:] and [3:].
CleanResponseKeepsClosingFence(response) ==
  LET r == Strip(response)
  IN  IF StartsWith(r, FenceJson) THEN PySlice(r, 7, Len(r))
      ELSE IF StartsWith(r, Fence) THEN PySlice(r, 3, Len(r))
      ELSE r

\* The clean-up before decoding: strip, then drop a leading fence and the
\* last three characters.
CleanResponse(response) ==
  LET r == Strip(response)
  IN  IF StartsWith(r, FenceJson) THEN PySliceFromEnd(r, 7, 3)
      ELSE IF StartsWith(r, Fence) THEN PySliceFromEnd(r, 3, 3)
      ELSE r

\* {'entities': [], 'relationships': []}
EmptyExtraction ==
  JDict((KeyEntities :> JList(<<>>)) @@ (KeyRelationships :> JList(<<>>)))

Returned(v) == [kind |-> "return", value |-> v]

\* except json.JSONDecodeError: two error records, the empty result.
OnDecodeError == Returned(EmptyExtraction)

\* The try block of extract_entities_and_relationships on the completion text.
ParseResponse(response) ==
  LET d == JsonLoads(CleanResponse(response))
  IN  IF d.ok THEN Returned(d.val) ELSE OnDecodeError

\* logging.error calls of the except clause.
ParseErrors(response) == IF JsonLoads(CleanResponse(response)).ok THEN 0 ELSE 2

\* Events whose extraction is started on the one client.
NumEvents == 3
Events == 1..NumEvents

VARIABLES
  pc,        \* pc[e]: "pending", "in_flight" (awaiting session.post), "done"
  backend,   \* backend[e]: the outcome of the backend call of event e
  calls,     \* calls[e]: backend calls issued for event e
  result,    \* result[e]: what extract_entities_and_relationships gave
  errors     \* errors[e]: logging.error records written for event e

extractVars == <<pc, backend, calls, result, errors>>

NoResult == [kind |-> "none", value |-> JNull]

InitExtract ==
  /\ pc = [e \in Events |-> "pending"]
  /\ backend = [e \in Events |-> NoOutcome]
  /\ calls = [e \in Events |-> 0]
  /\ result = [e \in Events |-> NoResult]
  /\ errors = [e \in Events |-> 0]

\* extract_entities_and_relationships up to the await of the POST in
\* generate_completion: the request is sent, nothing else is waited for.
StartExtraction(e) ==
  /\ pc[e] = "pending"
  /\ pc' = [pc EXCEPT ![e] = "in_flight"]
  /\ calls' = [calls EXCEPT ![e] = @ + 1]
  /\ UNCHANGED <<backend, result, errors>>

\* The backend call of event e ends as o: generate_completion returns its
\* text and extract_entities_and_relationships runs on to its return.
CompleteExtraction(e, o) ==
  /\ pc[e] = "in_flight"
  /\ backend' = [backend EXCEPT ![e] = o]
  /\ result' = [result EXCEPT ![e] = ParseResponse(CompletionText(o))]
  /\ errors' = [errors EXCEPT
                  ![e] = @ + CompletionErrors(o) + ParseErrors(CompletionText(o))]
  /\ pc' = [pc EXCEPT ![e] = "done"]
  /\ UNCHANGED calls

(***************************************************************************)
(* OllamaClient.analyze_patterns                                           *)
(***************************************************************************)

\* insights[:10]
InsightCap == 10

\* response.split('\n'): the pieces between line feeds, empty pieces kept.
RECURSIVE SplitLines(_)
SplitLines(s) ==
  IF \A i \in 1..Len(s) : s[i] # "\n" THEN <<s>>
  ELSE LET k == CHOOSE i \in 1..Len(s) :
                  s[i] = "\n" /\ \A j \in 1..(i - 1) : s[j] # "\n"
       IN  <<SubSeq(s, 1, k - 1)>> \o SplitLines(SubSeq(s, k + 1, Len(s)))

\* if insight.strip() and not insight.strip().startswith('#')
KeepsLine(line) == Strip(line) # <<>> /\ ~StartsWith(Strip(line), <<"#">>)

\* analyze_patterns with the comment test on the untrimmed line.
AnalyzeResponseRawCommentTest(response) ==
  LET keeps(line) == Strip(line) # <<>> /\ ~StartsWith(line, <<"#">>)
      kept == SelectSeq(SplitLines(response), keeps)
      insights == [i \in 1..Len(kept) |-> Strip(kept[i])]
  IN  SubSeq(insights, 1, IF Len(insights) < InsightCap THEN Len(insights) ELSE InsightCap)

\* The list comprehension and the slice of analyze_patterns.
AnalyzeResponse(response) ==
  LET kept == SelectSeq(SplitLines(response), KeepsLine)
      insights == [i \in 1..Len(kept) |-> Strip(kept[i])]
  IN  SubSeq(insights, 1, IF Len(insights) < InsightCap THEN Len(insights) ELSE InsightCap)

\* Texts the backend may deliver to analyze_patterns: every text over a
\* four-character alphabet up to MaxInsightLen, and long ones made of a
\* repeated group of lines followed by a short tail.
MaxInsightLen == 5
MaxLines == 12
InsightAlphabet == {"a", " ", "#", "\n"}
ShortInsightTexts == UNION {[1..n -> InsightAlphabet] : n \in 0..MaxInsightLen}
RECURSIVE Repeat(_, _)
Repeat(u, k) == IF k = 0 THEN <<>> ELSE u \o Repeat(u, k - 1)
LineGroups ==
  {<<"a", "\n">>, <<" ", "a", " ", "\n">>, <<"#", "a", "\n">>,
   <<"a", "\n", " ", "#", "\n", "\n">>}
LongInsightTexts ==
  {Repeat(u, k) \o t : u \in LineGroups, k \in 0..MaxLines,
                       t \in {<<>>, <<"a">>, <<"a", " ">>, <<"#">>, <<"\n", "a">>}}
AnalysisOutcomes ==
  {[kind |-> "exception", status |-> 0, text |-> <<>>]} \cup
  {[kind |-> "http", status |-> HttpOK, text |-> t] :
     t \in ShortInsightTexts \cup LongInsightTexts} \cup
  {[kind |-> "http", status |-> HttpError, text |-> t] : t \in LineGroups}

VARIABLES
  an_pc,       \* "idle", "in_flight" (awaiting session.post), "done"
  an_backend,  \* the outcome of the backend call of analyze_patterns
  insights     \* the list analyze_patterns returned

analysisVars == <<an_pc, an_backend, insights>>

InitAnalysis ==
  /\ an_pc = "idle"
  /\ an_backend = [kind |-> "none", status |-> 0, text |-> <<>>]
  /\ insights = <<>>

\* analyze_patterns up to the await of the POST in generate_completion.
StartAnalysis ==
  /\ an_pc = "idle"
  /\ an_pc' = "in_flight"
  /\ UNCHANGED <<an_backend, insights>>

\* The backend call ends as o; analyze_patterns runs on to its return.
CompleteAnalysis(o) ==
  /\ an_pc = "in_flight"
  /\ an_backend' = o
  /\ insights' = AnalyzeResponse(CompletionText(o))
  /\ an_pc' = "done"

(***************************************************************************)
(* SmartHomeGraphitiEngine                                                 *)
(***************************************************************************)

RequiredVars ==
  {"NEO4J_URI", "NEO4J_USERNAME", "NEO4J_PASSWORD",
   "KAFKA_BOOTSTRAP_SERVERS", "OLLAMA_BASE_URL"}

\* os.getenv(var): None ('unset'), the empty string ('empty'), or a
\* non-empty string ('set').
EnvValues == {"unset", "empty", "set"}

\* A presence test that takes the empty string for a value:
\* os.getenv(var) is None.
IsMissingUnsetOnly(v) == v = "unset"

\* not os.getenv(var)
IsMissing(v) == v \in {"unset", "empty"}

\* missing_vars of check_environment
MissingVars(environ) == {v \in RequiredVars : IsMissing(environ[v])}

\* check_environment's return value
CheckEnvironment(environ) == MissingVars(environ) = {}

\* What the body of a step raises: nothing, or an instance of Exception.
Raises == {"none", "Exception"}

\* Handlers that name a narrower exception class: except KeyError.
ExceptClauseCatchesKeyError(exc) == exc = "KeyError"

\* except Exception as e: whether the handlers of process_sensor_data,
\* generate_insights, run_processing_cycle and run catch what was raised.
ExceptClauseCatches(exc) == exc = "Exception"

\* all(services_status) of initialize_services
ServicesOk(neo4j, kafka, ollama) == neo4j /\ kafka /\ ollama

\* Cycles of the main loop the model runs.
MaxCycles == 3

VARIABLES
  env,            \* the process environment, one value per required variable
  run_pc,         \* where run() is: "start", "init", "loop", "process",
                  \* "insights", "sleep", "exited", "stopped"
  exit_status,    \* "running", "exit1" (sys.exit(1)) or "interrupted"
  services,       \* "unchecked", "ok" or "failed": initialize_services
  cycle_count,    \* cycle_count of run()
  failed_cycles,  \* the cycles in which an exception was raised
  error_log       \* logger.error records written

runVars ==
  <<env, run_pc, exit_status, services, cycle_count, failed_cycles, error_log>>

InitRunIn(environments) ==
  /\ env \in environments
  /\ run_pc = "start"
  /\ exit_status = "running"
  /\ services = "unchecked"
  /\ cycle_count = 0
  /\ failed_cycles = {}
  /\ error_log = 0

\* run(), lines 209-214: the environment check; a missing variable is logged
\* by check_environment and by run, and the process exits with status 1.
StartRun ==
  /\ run_pc = "start"
  /\ IF CheckEnvironment(env)
       THEN /\ run_pc' = "init"
            /\ UNCHANGED <<exit_status, error_log>>
       ELSE /\ run_pc' = "exited"
            /\ exit_status' = "exit1"
            /\ error_log' = error_log + 2
  /\ UNCHANGED <<env, services, cycle_count, failed_cycles>>

\* run(), line 217: initialize_services gathers the three connection tests;
\* its result is not looked at and the loop is entered.
InitializeServices(neo4j, kafka, ollama) ==
  /\ run_pc = "init"
  /\ services' = IF ServicesOk(neo4j, kafka, ollama) THEN "ok" ELSE "failed"
  /\ error_log' = error_log + Cardinality({i \in 1..3 : ~<<neo4j, kafka, ollama>>[i]})
  /\ run_pc' = "loop"
  /\ UNCHANGED <<env, exit_status, cycle_count, failed_cycles>>

\* What an exception raised inside run_processing_cycle comes to: the
\* handler of the function it was raised in catches it, else the handler of
\* run_processing_cycle, else the one of run, which exits with status 1.
\* next is where the cycle goes on when the exception is caught.
RaiseInCycle(exc, next) ==
  /\ failed_cycles' = failed_cycles \cup {cycle_count}
  /\ error_log' = error_log + 1
  /\ IF ExceptClauseCatches(exc)
       THEN /\ run_pc' = next
            /\ UNCHANGED exit_status
       ELSE /\ run_pc' = "exited"
            /\ exit_status' = "exit1"

\* The head of the loop and of run_processing_cycle, up to the call of
\* process_sensor_data.
BeginCycle ==
  /\ run_pc = "loop"
  /\ cycle_count < MaxCycles
  /\ cycle_count' = cycle_count + 1
  /\ run_pc' = "process"
  /\ UNCHANGED <<env, exit_status, services, failed_cycles, error_log>>

\* await self.process_sensor_data(sample_data); exc is what its body raises.
ProcessSensorData(exc) ==
  /\ run_pc = "process"
  /\ IF exc # "none"
       THEN RaiseInCycle(exc, "insights")
       ELSE /\ run_pc' = "insights"
            /\ UNCHANGED <<exit_status, failed_cycles, error_log>>
  /\ UNCHANGED <<env, services, cycle_count>>

\* await self.generate_insights(context) and the end of the cycle; exc is
\* what its body raises.
GenerateInsights(exc) ==
  /\ run_pc = "insights"
  /\ IF exc # "none"
       THEN RaiseInCycle(exc, "sleep")
       ELSE /\ run_pc' = "sleep"
            /\ UNCHANGED <<exit_status, failed_cycles, error_log>>
  /\ UNCHANGED <<env, services, cycle_count>>

\* await asyncio.sleep(60) returns.
Sleep ==
  /\ run_pc = "sleep"
  /\ run_pc' = "loop"
  /\ UNCHANGED <<env, exit_status, services, cycle_count, failed_cycles, error_log>>

\* KeyboardInterrupt inside the loop: the shutdown is logged and run ends.
Interrupt ==
  /\ run_pc \in {"loop", "process", "insights", "sleep"}
  /\ run_pc' = "stopped"
  /\ exit_status' = "interrupted"
  /\ UNCHANGED <<env, services, cycle_count, failed_cycles, error_log>>

(***************************************************************************)
(* Specifications                                                          *)
(***************************************************************************)

vars == <<extractVars, analysisVars, runVars>>

EnvAllSet == [v \in RequiredVars |-> "set"]

\* One extraction, over every backend outcome.
InitClient == InitExtract /\ InitAnalysis /\ InitRunIn({EnvAllSet})
ClientStep(A) == A /\ UNCHANGED <<analysisVars, runVars>>
NextExtraction ==
  \/ ClientStep(StartExtraction(1))
  \/ ClientStep(pc[1] = "in_flight" /\ \E o \in Outcomes : CompleteExtraction(1, o))
SpecExtraction == InitClient /\ [][NextExtraction]_vars

\* NumEvents extractions started concurrently on one client.
ConcurrentOutcomes ==
  {TransportError} \cup
  {Plain(st, t) : st \in {HttpOK, HttpError},
                  t \in {TextEmptyLists, TextNotJson, TextNumber}}
NextConcurrent ==
  \/ ClientStep(\E e \in Events : StartExtraction(e))
  \/ ClientStep(\E e \in Events :
                  pc[e] = "in_flight" /\ \E o \in ConcurrentOutcomes : CompleteExtraction(e, o))
SpecConcurrent == InitClient /\ [][NextConcurrent]_vars

\* One call of analyze_patterns, over every backend outcome.
AnalysisStep(A) == A /\ UNCHANGED <<extractVars, runVars>>
NextAnalysis ==
  \/ AnalysisStep(StartAnalysis)
  \/ AnalysisStep(an_pc = "in_flight" /\ \E o \in AnalysisOutcomes : CompleteAnalysis(o))
SpecAnalysis == InitClient /\ [][NextAnalysis]_vars

\* The engine's run(), from every environment.
InitEngine ==
  InitExtract /\ InitAnalysis /\ InitRunIn([RequiredVars -> EnvValues])
EngineStep(A) == A /\ UNCHANGED <<extractVars, analysisVars>>
NextEngine ==
  \/ EngineStep(StartRun)
  \/ EngineStep(\E a, b, c \in BOOLEAN : InitializeServices(a, b, c))
  \/ EngineStep(BeginCycle)
  \/ EngineStep(\E exc \in Raises : ProcessSensorData(exc))
  \/ EngineStep(\E exc \in Raises : GenerateInsights(exc))
  \/ EngineStep(Sleep)
  \/ EngineStep(Interrupt)
SpecEngine == InitEngine /\ [][NextEngine]_vars

\* The event loop runs a coroutine that can run, and a sleep returns: every
\* step of run() but the interrupt, which nothing guarantees, is taken when
\* it stays possible.
FairSpecEngine ==
  /\ SpecEngine
  /\ WF_vars(EngineStep(StartRun))
  /\ WF_vars(EngineStep(\E a, b, c \in BOOLEAN : InitializeServices(a, b, c)))
  /\ WF_vars(EngineStep(BeginCycle))
  /\ WF_vars(EngineStep(\E exc \in Raises : ProcessSensorData(exc)))
  /\ WF_vars(EngineStep(\E exc \in Raises : GenerateInsights(exc)))
  /\ WF_vars(EngineStep(Sleep))

(***************************************************************************)
(* Properties of extract_entities_and_relationships                        *)
(***************************************************************************)

Done(e) == pc[e] = "done"

\* C1: whenever the backend call ends in a transport exception, a status
\* other than 200, an empty text, or a text that json.loads cannot decode
\* (after the clean-up), extract_entities_and_relationships returns the
\* empty extraction result and raises nothing.
C1_FailureGivesEmptyResult ==
  \A e \in Events :
    (/\ Done(e)
     /\ \/ backend[e].kind = "exception"
        \/ backend[e].status # 200
        \/ backend[e].text = <<>>
        \/ ~JsonLoads(CleanResponse(backend[e].text)).ok)
    => result[e] = [kind |-> "return", value |-> EmptyExtraction]

\* The text 'not json' was delivered with status 200 and the empty result
\* came back.
C1_Witness ==
  /\ Done(1)
  /\ backend[1] = Plain(HttpOK, TextNotJson)
  /\ result[1] = Returned(EmptyExtraction)

\* C2 as stated: a JSON text inside a fenced code block, whatever the tag of
\* the opening fence, decodes to what the same text decodes to unwrapped.
C2_AnyFenceRoundTrip ==
  \A e \in Events :
    (Done(e) /\ backend[e].status = HttpOK /\ backend[e].fence # "none")
    => result[e] = ParseResponse(backend[e].json)

\* C2 amended: a JSON text inside a fenced code block whose opening fence is
\* bare or tagged json decodes to what the same text decodes to unwrapped.
C2_JsonFenceRoundTrip ==
  \A e \in Events :
    (Done(e) /\ backend[e].status = HttpOK /\ backend[e].fence \in {"bare", "json"})
    => result[e] = ParseResponse(backend[e].json)

\* A fenced block tagged json around a one-entity result was decoded to
\* that result.
C2_Witness ==
  /\ Done(1)
  /\ backend[1].fence = "json"
  /\ backend[1].json = TextOneEntity
  /\ Len(backend[1].text) > Len(TextOneEntity)
  /\ result[1] = Returned(JsonLoads(TextOneEntity).val)
  /\ result[1] # Returned(EmptyExtraction)

\* A mapping with a list under 'entities' and a list under 'relationships'.
IsExtractionResult(v) ==
  /\ v.t = "dict"
  /\ {KeyEntities, KeyRelationships} \subseteq DOMAIN v.d
  /\ v.d[KeyEntities].t = "list"
  /\ v.d[KeyRelationships].t = "list"

\* C9: every value extract_entities_and_relationships returns has the shape
\* of an extraction result.
C9_ResultHasShape ==
  \A e \in Events :
    Done(e) => result[e].kind = "return" /\ IsExtractionResult(result[e].value)

\* C4: with bound K = 2, at most two backend calls are in flight at once.
C4_InFlightBounded == Cardinality({e \in Events : pc[e] = "in_flight"}) <= 2

\* C5: a backend call that failed at the transport is retried: the empty
\* result of an event whose call failed so is emitted after more than one
\* call.
C5_FailedCallRetried ==
  \A e \in Events :
    (Done(e) /\ backend[e].kind = "exception") => calls[e] >= 2

(***************************************************************************)
(* Properties of analyze_patterns                                          *)
(***************************************************************************)

\* The n-th smallest member of a set of numbers.
NthOf(S, n) == CHOOSE k \in S : Cardinality({j \in S : j <= k}) = n

\* The lines of a text, read off the positions of its line feeds: line k
\* lies between the (k-1)-th and the k-th line feed.
LinesOf(s) ==
  LET feeds == {i \in 1..Len(s) : s[i] = "\n"}
      at(k) == IF k = 0 THEN 0
               ELSE IF k > Cardinality(feeds) THEN Len(s) + 1
               ELSE NthOf(feeds, k)
  IN  [k \in 1..(Cardinality(feeds) + 1) |-> SubSeq(s, at(k - 1) + 1, at(k) - 1)]

\* A line without its leading and trailing whitespace.
Trimmed(l) ==
  LET inked == {i \in 1..Len(l) : l[i] \notin PyWhitespace}
  IN  IF inked = {} THEN <<>>
      ELSE SubSeq(l, CHOOSE i \in inked : \A j \in inked : i <= j,
                     CHOOSE i \in inked : \A j \in inked : j <= i)

\* The lines that count: not empty once trimmed, and not starting with '#'.
Candidates(lines) ==
  {k \in 1..Len(lines) : Trimmed(lines[k]) # <<>> /\ Trimmed(lines[k])[1] # "#"}

\* The text analyze_patterns got: empty when the backend call failed.
Delivered(o) == IF o.kind = "http" /\ o.status = 200 THEN o.text ELSE <<>>

\* C3: analyze_patterns returns at most 10 insights: the first (up to 10)
\* candidate lines of the response, in order and trimmed; none when the
\* response is empty or the call failed.
C3_InsightsAreFirstTenCandidates ==
  an_pc = "done" =>
    LET lines == LinesOf(Delivered(an_backend))
        cands == Candidates(lines)
        n == Cardinality(cands)
    IN  /\ Len(insights) <= 10
        /\ Len(insights) = IF n < 10 THEN n ELSE 10
        /\ \A i \in 1..Len(insights) : insights[i] = Trimmed(lines[NthOf(cands, i)])
        /\ (Delivered(an_backend) = <<>> => insights = <<>>)

\* A response with more than ten candidate lines, and comment lines among
\* its lines, was cut to ten insights.
C3_Witness ==
  /\ an_pc = "done"
  /\ Cardinality(Candidates(LinesOf(Delivered(an_backend)))) > 10
  /\ \E k \in 1..Len(an_backend.text) : an_backend.text[k] = "#"
  /\ Len(insights) = 10

(***************************************************************************)
(* Properties of the engine's run()                                        *)
(***************************************************************************)

InLoop == run_pc \in {"loop", "process", "insights", "sleep"}

\* C6: an exception raised while an event is processed or insights are
\* generated is caught and logged, leaves the process running inside the
\* cycle, and the next cycle is started (unless an interrupt stops the
\* engine first).
C6_CycleIsolation ==
  /\ [][\A n \in 1..MaxCycles :
          (n \notin failed_cycles /\ n \in failed_cycles')
          => /\ exit_status' = "running"
             /\ run_pc' \in {"insights", "sleep"}
             /\ cycle_count' = n
             /\ error_log' = error_log + 1]_vars
  /\ \A n \in 1..(MaxCycles - 1) :
       (n \in failed_cycles) ~> (cycle_count > n \/ run_pc = "stopped")

\* The first cycle raised an exception and the second cycle is running.
C6_Witness ==
  /\ 1 \in failed_cycles
  /\ cycle_count = 2
  /\ run_pc = "process"
  /\ exit_status = "running"

\* C8: run() has exited with status 1 before any service was initialised
\* and before any cycle exactly when a required variable is unset or empty;
\* after a failed service initialisation the engine is in its loop.
C8_OnlyConfigurationIsFatal ==
  run_pc # "start" =>
    /\ (exit_status = "exit1" /\ services = "unchecked" /\ cycle_count = 0)
         <=> (\E v \in RequiredVars : env[v] \in {"unset", "empty"})
    /\ services = "failed" =>
         exit_status # "exit1" /\ (InLoop \/ run_pc = "stopped")

\* The services failed to initialise and the first cycle is running.
C8_Witness ==
  /\ services = "failed"
  /\ cycle_count = 1
  /\ run_pc = "process"
  /\ exit_status = "running"

\* C10: neither step of a cycle blocks the other: while the processing of
\* the cycle's event has not finished the insight generation can take its
\* step, and while the insight generation has not finished the processing
\* of an event can.
C10_StepsNeverBlockEachOther ==
  /\ run_pc = "process" => ENABLED (\E exc \in Raises : GenerateInsights(exc))
  /\ run_pc = "insights" => ENABLED (\E exc \in Raises : ProcessSensorData(exc))

====
